---- MODULE Spec2Model ----
(***************************************************************************)
(* Follow-up reminder and push-notification delivery pipeline of the       *)
(* field-sales CRM backend: crm/services.py (credential provider, the two  *)
(* send entry points, the dispatcher, the reminder scanner), crm/signals.py*)
(* (post_save hook that starts the dispatcher thread), crm/models.py and   *)
(* the REST handlers of api/views.py and api/fcm_views.py that change the  *)
(* records the pipeline reads.                                             *)
(*                                                                         *)
(* Database rows are functions from ids to records.  A handler is split    *)
(* into steps only where it does network I/O (the OAuth2 token request,    *)
(* the POST to the push service), so that other requests and threads can   *)
(* interleave there, as they do in the running server.                     *)
(***************************************************************************)
EXTENDS Integers, Sequences, FiniteSets, TLC

VARIABLES
    now,        \* wall clock, in ticks since the epoch (UTC)
    profile,    \* UserProfile row of each User (crm/models.py:37-50)
    followups,  \* FollowUp rows (crm/models.py:138-149)
    log,        \* NotificationLog rows (crm/models.py:163-172)
    call,       \* per thread: the frame of its current send_fcm_notification[_with_data] call
    scan,       \* per scanner process: locals of send_followup_reminders
    runs,       \* history: per scanner run, its `today` and the ids its two querysets gave
    sentToday,  \* history: follow-ups for which line 314 (the due-today send) was called
    notifs,     \* SystemNotification rows (crm/models.py:183-203)
    txn,        \* per SystemNotification row: state of the transaction that inserted it
    threads,    \* per SystemNotification id: the dispatcher thread started for it
    started,    \* history: number of dispatcher threads started per SystemNotification id
    ncalls      \* number of direct send calls made so far

vars == <<now, profile, followups, log, call, scan, runs, sentToday,
          notifs, txn, threads, started, ncalls>>

----------------------------------------------------------------------------
(* Bounds of the model *)

\* number of ticks the clock divides a day into
TicksPerDay == 2
\* last calendar day (UTC) the clock can reach, days counted from 0
MaxDay == 1
\* scanner runs per behaviour
MaxRuns == 2
\* direct send calls (test view, management commands) per behaviour
MaxCalls == 2

\* settings.TIME_ZONE is Asia/Kolkata (UTC+5:30) with USE_TZ=True: local time is
\* ahead of UTC by less than a day; one tick stands for the offset.
TzOffset == 1

MaxNow == (MaxDay + 1) * TicksPerDay - 1

----------------------------------------------------------------------------
(* Users and profiles *)

Users == {"u1", "u2", "u3", "u4"}
NoUser == "None"
\* auth_user.id, the order the database yields users in
UserId(u) == CASE u = "u1" -> 1 [] u = "u2" -> 2 [] u = "u3" -> 3 [] OTHER -> 4

\* values of UserProfile.fcm_token: NULL, the empty string, or a registration token
NullToken == "NULL"
Tokens == {"tokA", "tokB"}
TokenValues == {NullToken, ""} \cup Tokens

Roles == {"sales_executive", "admin"}

\* Python truthiness of profile.fcm_token: None and '' are falsy
Falsy(tok) == tok = NullToken \/ tok = ""

\* `not hasattr(user, 'profile') or not user.profile.fcm_token`
MissingTokenNever(u) == FALSE
MissingToken(u) == u = NoUser \/ ~profile[u].exists \/ Falsy(profile[u].fcm_token)

HasToken == [exists |-> TRUE, fcm_token |-> "tokA", role |-> "sales_executive"]
HasNoToken == [exists |-> TRUE, fcm_token |-> "", role |-> "sales_executive"]
NoProfile == [exists |-> FALSE, fcm_token |-> NullToken, role |-> "sales_executive"]
ProfileRows ==
    {NoProfile} \cup [exists : {TRUE}, fcm_token : TokenValues, role : Roles]

----------------------------------------------------------------------------
(* Credential provider: get_access_token *)

\* What the environment gives the credential provider: whether the configured
\* service-account file exists, whether its key loads, whether the ambient
\* default credentials exist, and whether the token refresh succeeds.
CredEnvs ==
    { [file |-> TRUE,  key_ok |-> TRUE,  adc |-> FALSE, refresh_ok |-> TRUE],
      [file |-> TRUE,  key_ok |-> FALSE, adc |-> FALSE, refresh_ok |-> TRUE],
      [file |-> TRUE,  key_ok |-> TRUE,  adc |-> FALSE, refresh_ok |-> FALSE],
      [file |-> FALSE, key_ok |-> TRUE,  adc |-> TRUE,  refresh_ok |-> TRUE],
      [file |-> FALSE, key_ok |-> TRUE,  adc |-> FALSE, refresh_ok |-> TRUE],
      [file |-> FALSE, key_ok |-> TRUE,  adc |-> TRUE,  refresh_ok |-> FALSE] }

\* one environment of each class: a token is given, no token is given
CredEnvClasses ==
    { [file |-> TRUE,  key_ok |-> TRUE,  adc |-> FALSE, refresh_ok |-> TRUE],
      [file |-> FALSE, key_ok |-> TRUE,  adc |-> FALSE, refresh_ok |-> TRUE] }

NoneToken == "None"
CredFailText == "Failed to get OAuth2 access token"

\* The exception text that get_access_token prints (line 39) before it returns None;
\* "" when nothing was raised.
CredCause(env) ==
    IF env.file
    THEN IF ~env.key_ok THEN "malformed service account key"
         ELSE IF ~env.refresh_ok THEN "token refresh failed"
         ELSE ""
    ELSE IF ~env.adc THEN "default credentials not found"
         ELSE IF ~env.refresh_ok THEN "token refresh failed"
         ELSE ""

\* get_access_token(): the token of the service-account file, else of the default
\* credentials; None after any exception.
get_access_token(env) ==
    IF CredCause(env) # "" THEN NoneToken
    ELSE IF env.file THEN "ya29.sa" ELSE "ya29.adc"

----------------------------------------------------------------------------
(* Push service: the outcome of requests.post *)

\* raised: requests.post raised (timeout, DNS, connection reset) with text exc.
\* Otherwise a response with a status, a raw body text, and what response.json()
\* gives: a dict with the text error.message (errmsg), a dict without it, a value
\* on which .get fails (a list, or "error" not a dict), or a JSON decode error.
RespOK ==
    [raised |-> FALSE, exc |-> "", status |-> 200, json |-> "no_message",
     errmsg |-> "", text |-> "{\"name\": \"projects/p/messages/1\"}"]
RespRejected ==
    [raised |-> FALSE, exc |-> "", status |-> 404, json |-> "error_message",
     errmsg |-> "Requested entity was not found.", text |-> "{\"error\": {...}}"]
RespRawError ==
    [raised |-> FALSE, exc |-> "", status |-> 502, json |-> "not_json",
     errmsg |-> "", text |-> "Bad Gateway"]
RespNoMessage ==
    [raised |-> FALSE, exc |-> "", status |-> 400, json |-> "no_message",
     errmsg |-> "", text |-> "{}"]
RespException ==
    [raised |-> TRUE, exc |-> "Connection reset by peer", status |-> 0, json |-> "not_json",
     errmsg |-> "", text |-> ""]

RespOKErrorBody ==
    [raised |-> FALSE, exc |-> "", status |-> 200, json |-> "error_message",
     errmsg |-> "partial failure", text |-> "{\"error\": {\"message\": ...}}"]
RespNotADict ==
    [raised |-> FALSE, exc |-> "", status |-> 500, json |-> "not_a_dict",
     errmsg |-> "", text |-> "[\"Internal error\"]"]
\* the frame of a call that has no answer
NoResp ==
    [raised |-> FALSE, exc |-> "", status |-> 0, json |-> "", errmsg |-> "", text |-> ""]

Responses ==
    {RespOK, RespRejected, RespRawError, RespNoMessage, RespException,
     RespOKErrorBody, RespNotADict}
\* one response of each class: accepted, rejected, transport failure
ResponseClasses == {RespOK, RespRejected, RespException}
\* the callers of the sends drop the error detail: one accepted and one failed POST
ScanResponses == {RespOK, RespException}

\* lines 110-118 / 264-272, and 131-141 / 285-295: the success flag and the error
\* detail that go to the log and the boolean that is returned
\* raises: an exception leaves the send function (the `except Exception` of lines
\* 131 / 285 lets none of requests.post through).
DeliveryResultInverted(resp) ==
    [success |-> resp.raised \/ resp.status # 200, error_message |-> "", raises |-> FALSE]
DeliveryResultByBody(resp) ==
    IF resp.raised
    THEN [success |-> FALSE, error_message |-> resp.exc, raises |-> FALSE]
    ELSE IF resp.json # "error_message"
         THEN [success |-> TRUE, error_message |-> "", raises |-> FALSE]
         ELSE [success |-> FALSE, error_message |-> resp.errmsg, raises |-> FALSE]
DeliveryResultPropagates(resp) ==
    IF resp.raised
    THEN [success |-> FALSE, error_message |-> resp.exc, raises |-> TRUE]
    ELSE [success |-> resp.status = 200,
          error_message |-> IF resp.status = 200 THEN ""
                            ELSE IF resp.json = "error_message" THEN resp.errmsg
                            ELSE resp.text,
          raises |-> FALSE]
DeliveryResult(resp) ==
    IF resp.raised
    THEN [success |-> FALSE, error_message |-> resp.exc, raises |-> FALSE]
    ELSE IF resp.status = 200
         THEN [success |-> TRUE, error_message |-> "", raises |-> FALSE]
         ELSE [success |-> FALSE,
               error_message |-> IF resp.json = "error_message" THEN resp.errmsg
                                 ELSE resp.text,
               raises |-> FALSE]

----------------------------------------------------------------------------
(* The two send entry points: send_fcm_notification (entry "plain") and
   send_fcm_notification_with_data (entry "with_data").  Both have the same
   control flow; they differ in the payload they compose. *)

Procs == {"s1", "s2", "d1", "d2", "c1"}

\* A frame of a send call.  stage: "none" (no call), "cred" (past the token check,
\* before get_access_token), "post" (the POST is out, no response yet),
\* "returned", "raised" (an exception left the function).  History fields of the frame, not program state: credReq (the
\* credential provider was called), cause (what it printed), httpCalled (the POST
\* was issued), accepted (the push service answered 200), logged (the
\* NotificationLog rows this call created, one per create), ref (the follow-up or notification the
\* caller sends for), run (the caller's run number), resp (what requests.post gave).
\* stalled: the push service will never answer the POST that is out.
\* Python values of a data map, tagged by type.  A text is a tuple of its parts.
PyStr(t) == <<"str", t>>
PyNone == <<"none", <<>> >>
PyInt(i) == <<"int", i>>

\* str(value) of Python: a str is itself, an int its decimal digits, None "None"
IntStr(i) == <<"0", "1", "2", "3", "4", "5", "6", "7", "8", "9">>[i + 1]
PyStrOf(v) ==
    IF v[1] = "int" THEN PyStr(<<IntStr(v[2])>>)
    ELSE IF v[1] = "none" THEN PyStr(<<"None">>)
    ELSE v

\* lines 215-219: fcm_data[key] = str(value) if value is not None else "", for
\* every item of data; a map is the set of its <<key, value>> items
FcmDataDropsNone(data) ==
    {<<kv[1], PyStrOf(kv[2])>> : kv \in {x \in data : x[2][1] # "none"}}
FcmData(data) ==
    {<<kv[1], IF kv[2][1] # "none" THEN PyStrOf(kv[2]) ELSE PyStr(<<>>)>> : kv \in data}

\* the "data" member of the payload: lines 81-85 of send_fcm_notification (type,
\* title and body, and nothing else) and line 229 of
\* send_fcm_notification_with_data (the converted data map, and nothing else)
DataBlockMerged(c) ==
    { <<"type", PyStr(<<c.ntype>>)>>, <<"title", PyStr(c.title)>>,
      <<"body", PyStr(c.message)>> } \cup FcmData(c.data)
DataBlock(c) ==
    IF c.entry = "plain"
    THEN { <<"type", PyStr(<<c.ntype>>)>>, <<"title", PyStr(c.title)>>,
           <<"body", PyStr(c.message)>> }
    ELSE FcmData(c.data)

\* lines 75-106 / 222-260: the payload of the POST (the delivery hints for the
\* platforms, which are fixed, are left out)
NoPayload == [token |-> "", title |-> <<>>, body |-> <<>>, data |-> {}]
Payload(c) ==
    [token |-> c.token, title |-> c.title, body |-> c.message, data |-> DataBlock(c)]

NoCall ==
    [stage |-> "none", payload |-> NoPayload, entry |-> "", user |-> NoUser, title |-> <<>>, message |-> <<>>,
     ntype |-> "", data |-> {}, token |-> "", bearer |-> "", ret |-> FALSE,
     credReq |-> FALSE, cause |-> "", httpCalled |-> FALSE, accepted |-> FALSE,
     logged |-> <<>>, ref |-> 0, run |-> 0, resp |-> NoResp, stalled |-> FALSE]

\* NotificationLog.objects.create(...): the row of a call.  History fields: proc,
\* ref, run, posted (the POST was issued) and seq, the number of the row among the
\* rows of its thread, which stands for the row's id.
LogRow(p, c, success, error_message, posted) ==
    [user |-> c.user, title |-> c.title, message |-> c.message,
     notification_type |-> c.ntype, fcm_token |-> c.token,
     success |-> success, error_message |-> error_message,
     proc |-> p, ref |-> c.ref, run |-> c.run, posted |-> posted,
     seq |-> Cardinality({r \in log : r.proc = p}) + 1]

\* NotificationLog.objects.create(...) on the table: an INSERT of one new row; no
\* statement of services.py updates or deletes a row of the table
NotificationLogUpsert(rows, row) ==
    {x \in rows : ~(x.user = row.user /\ x.title = row.title)} \cup {row}
NotificationLogCreate(rows, row) == rows \cup {row}

\* lines 45-50 / 185-190: the call and its missing-token check
SendCall(p, entry, u, title, message, ntype, data, ref, run) ==
    LET c == [NoCall EXCEPT !.entry = entry, !.user = u, !.title = title,
                            !.message = message, !.ntype = ntype, !.data = data,
                            !.ref = ref, !.run = run]
    IN  call' = [call EXCEPT ![p] =
                    IF MissingToken(u)
                    THEN [c EXCEPT !.stage = "returned", !.ret = FALSE]
                    ELSE [c EXCEPT !.stage = "cred", !.token = profile[u].fcm_token]]

\* lines 54-65 / 194-205 on failure: one log row with the fixed text, return False.
\* lines 66-109 / 206-263 on success: compose the payload and issue the POST.
CredentialFailureRowNoText(p, c) == LogRow(p, c, FALSE, "", FALSE)
CredentialFailureRow(p, c) == LogRow(p, c, FALSE, CredFailText, FALSE)

SendCredential(p, E) ==
    /\ call[p].stage = "cred"
    /\ \E env \in E :
         LET c == call[p]
             tok == get_access_token(env)
         IN  IF tok = NoneToken
             THEN /\ log' = NotificationLogCreate(log, CredentialFailureRow(p, c))
                  /\ call' = [call EXCEPT ![p] =
                        [c EXCEPT !.stage = "returned", !.ret = FALSE, !.credReq = TRUE,
                                  !.cause = CredCause(env),
                                  !.logged = Append(c.logged, CredentialFailureRow(p, c))]]
             ELSE /\ log' = log
                  /\ call' = [call EXCEPT ![p] =
                        [c EXCEPT !.stage = "post", !.credReq = TRUE, !.bearer = tok,
                                  !.httpCalled = TRUE, !.payload = Payload(c)]]

\* lines 109-141 / 263-295: the response (or the exception) of the POST, the log
\* row, the returned boolean
SendResponse(p, R) ==
    /\ call[p].stage = "post"
    /\ \E resp \in R :
         LET c == call[p]
             r == DeliveryResult(resp)
             row == LogRow(p, c, r.success, r.error_message, TRUE)
         IN  IF r.raises
             THEN /\ log' = log
                  /\ call' = [call EXCEPT ![p] = [c EXCEPT !.stage = "raised", !.resp = resp]]
             ELSE /\ log' = NotificationLogCreate(log, row)
                  /\ call' = [call EXCEPT ![p] =
                        [c EXCEPT !.stage = "returned", !.ret = r.success,
                                  !.accepted = (~resp.raised /\ resp.status = 200),
                                  !.logged = Append(c.logged, row), !.resp = resp]]

----------------------------------------------------------------------------
(* Rows of the other tables, and the values they hold while a specification
   does not use them *)

FollowUpIds == {1, 2}
Customers == {"Acme", "Birla"}

\* FollowUp defaults (crm/models.py:146-147): reminder_sent=False, completed=False
NoFollowUp ==
    [exists |-> FALSE, customer |-> "Acme", sales_executive |-> NoUser, due_date |-> 0,
     completed |-> FALSE, reminder_sent |-> FALSE]

Scanners == {"s1", "s2"}
ScanIdle == [pc |-> "idle", today |-> 0, items |-> <<>>, run |-> 0]

NotifIds == {1, 2}
\* SystemNotification defaults (crm/models.py:195-203): is_read=False, read_at=None
NoNotif ==
    [exists |-> FALSE, user |-> NoUser, title |-> <<>>, message |-> <<>>,
     notification_type |-> "info", link |-> "", is_read |-> FALSE, read_at |-> -1,
     by |-> NoUser]
NoThread == [pc |-> "none", inst |-> NoNotif, users |-> <<>>, holders |-> {}]
DProc(n) == IF n = 1 THEN "d1" ELSE "d2"
\* str(system_notification.id)
IdStr(n) == IF n = 1 THEN "1" ELSE "2"

InitCommon ==
    /\ now \in 0..MaxNow
    /\ log = {}
    /\ call = [p \in Procs |-> NoCall]
    /\ scan = [s \in Scanners |-> ScanIdle]
    /\ runs = <<>>
    /\ sentToday = {}
    /\ notifs = [n \in NotifIds |-> NoNotif]
    /\ txn = [n \in NotifIds |-> "none"]
    /\ threads = [n \in NotifIds |-> NoThread]
    /\ started = [n \in NotifIds |-> 0]
    /\ ncalls = 0

----------------------------------------------------------------------------
(* Token registration: api/fcm_views.py update_fcm_token *)

UpdateFcmToken(u, tok) ==
    /\ tok \in Tokens                      \* `if not fcm_token: return 400`
    /\ profile[u].fcm_token # tok
    /\ profile' = [profile EXCEPT ![u] =
          IF profile[u].exists
          THEN [profile[u] EXCEPT !.fcm_token = tok]
          ELSE [exists |-> TRUE, fcm_token |-> tok, role |-> "sales_executive"]]

----------------------------------------------------------------------------
(* Specification SpecSend: a collaborator calls the two send entry points
   directly (api/test_notification_views.py:62, the management commands),
   one call after the other, while users register tokens. *)

SendUsers == {"u1", "u2"}
DirectTitle == <<"Test Notification">>
DirectMessage == <<"This is a test notification from the API">>
\* data maps a caller of send_fcm_notification_with_data passes
LinkData == {<<"link", PyStr(<<"/x">>)>>, <<"count", PyNone>>}
TypedData == {<<"type", PyStr(<<"chat">>)>>, <<"lead_id", PyInt(7)>>}
DirectData == {LinkData, TypedData}

DirectCall ==
    /\ call["c1"].stage \in {"none", "returned"}
    /\ ncalls < MaxCalls
    /\ ncalls' = ncalls + 1
    /\ \E u \in SendUsers :
          \/ SendCall("c1", "plain", u, DirectTitle, DirectMessage, "test", {}, 0, ncalls + 1)
          \/ \E d \in DirectData :
                SendCall("c1", "with_data", u, DirectTitle, DirectMessage, "test", d, 0,
                         ncalls + 1)
    /\ UNCHANGED <<now, profile, followups, log, scan, runs, sentToday,
                   notifs, txn, threads, started>>

DirectCredential ==
    /\ SendCredential("c1", CredEnvs)
    /\ UNCHANGED <<now, profile, followups, scan, runs, sentToday,
                   notifs, txn, threads, started, ncalls>>

DirectResponse ==
    /\ SendResponse("c1", Responses)
    /\ UNCHANGED <<now, profile, followups, scan, runs, sentToday,
                   notifs, txn, threads, started, ncalls>>

RegisterToken ==
    /\ \E tok \in Tokens : UpdateFcmToken("u1", tok)
    /\ UNCHANGED <<now, followups, log, call, scan, runs, sentToday,
                   notifs, txn, threads, started, ncalls>>

SendProfileRows ==
    {NoProfile} \cup [exists : {TRUE}, fcm_token : {NullToken, "", "tokA"},
                      role : {"sales_executive"}]

InitSend ==
    /\ InitCommon
    /\ now = 0
    /\ profile \in [Users -> SendProfileRows]
    /\ \A u \in Users \ SendUsers : profile[u] = NoProfile
    \* the second user holds a token all along
    /\ profile["u2"] = HasToken
    /\ followups = [f \in FollowUpIds |-> NoFollowUp]

NextSend == DirectCall \/ DirectCredential \/ DirectResponse \/ RegisterToken

SpecSend == InitSend /\ [][NextSend]_vars

(* Specification SpecStall: the direct sends of SpecSend with a push service that
   may leave a POST without any answer.  The process that runs the send keeps
   running: it takes its credential step, and it takes the step that handles the
   outcome of the POST whenever requests.post gives one. *)

\* the connection is open and the push service never answers
PostStalls ==
    /\ call["c1"].stage = "post"
    /\ ~call["c1"].stalled
    /\ call' = [call EXCEPT !["c1"].stalled = TRUE]
    /\ UNCHANGED <<now, profile, followups, log, scan, runs, sentToday,
                   notifs, txn, threads, started, ncalls>>

\* lines 109 / 263: requests.post(url, json=payload, headers=headers) is called with
\* no timeout argument, so requests waits for the answer without limit: a POST that
\* is never answered gives no response and raises nothing
PossibleOutcomes(c) == IF c.stalled THEN {} ELSE Responses

StallResponse ==
    /\ SendResponse("c1", PossibleOutcomes(call["c1"]))
    /\ UNCHANGED <<now, profile, followups, scan, runs, sentToday,
                   notifs, txn, threads, started, ncalls>>

NextStall == DirectCall \/ DirectCredential \/ StallResponse \/ PostStalls \/ RegisterToken

SpecStall ==
    /\ InitSend
    /\ [][NextStall]_vars
    /\ WF_vars(DirectCredential)
    /\ WF_vars(StallResponse)

----------------------------------------------------------------------------
(* Reminder scanner: send_followup_reminders (crm/services.py:298-339), run by
   the management command send_followup_reminders. *)

\* timezone.now().date(): with USE_TZ=True, now() is an aware datetime in UTC and
\* date() is its UTC calendar date
TodayOf(t) == t \div TicksPerDay

\* the due_date__date lookup: the datetime is converted to settings.TIME_ZONE
\* before its date is taken
DateLookup(due) == (due + TzOffset) \div TicksPerDay

\* filter(due_date__date=day, completed=False, reminder_sent=False)
SelectedIgnoringFlag(f, day) ==
    /\ followups[f].exists
    /\ DateLookup(followups[f].due_date) = day
    /\ ~followups[f].completed
Selected(f, day) ==
    /\ followups[f].exists
    /\ DateLookup(followups[f].due_date) = day
    /\ ~followups[f].completed
    /\ ~followups[f].reminder_sent

\* Meta.ordering = ['due_date'] (crm/models.py:152); equal due dates in id order
Before(f, g) ==
    \/ followups[f].due_date < followups[g].due_date
    \/ followups[f].due_date = followups[g].due_date /\ f < g

RECURSIVE Ordered(_)
Ordered(S) ==
    IF S = {} THEN <<>>
    ELSE LET f == CHOOSE x \in S : \A y \in S \ {x} : Before(x, y)
         IN  <<[id |-> f, row |-> followups[f]]>> \o Ordered(S \ {f})

\* the rows a queryset yields when the for loop evaluates it
QuerySet(day) == Ordered({f \in FollowUpIds : Selected(f, day)})

Ids(items) == {items[i].id : i \in 1..Len(items)}

\* `if followup.sales_executive:` (lines 313, 333)
HasRecipientAlways(row) == TRUE
HasRecipient(row) == row.sales_executive # NoUser

ReminderTitle == <<"Follow-up Reminder">>
DueTodayMessage(name) == <<"Follow-up with ", name, " is due today">>
DueTomorrowMessage(name) == <<"Follow-up with ", name, " is due tomorrow">>

\* lines 300-308: today, tomorrow, and the due-today queryset.  The record of the
\* run keeps, as history, the flags the follow-ups had when the run started.
ScanStart(s) ==
    /\ scan[s].pc = "idle"
    /\ Len(runs) < MaxRuns
    /\ LET today == TodayOf(now)
       IN  /\ scan' = [scan EXCEPT ![s] =
                 [pc |-> "today", today |-> today, items |-> QuerySet(today),
                  run |-> Len(runs) + 1]]
           /\ runs' = Append(runs, [today |-> today, selToday |-> Ids(QuerySet(today)),
                                    selTomorrow |-> {}, done |-> FALSE,
                                    completedAtStart |->
                                        {f \in FollowUpIds : followups[f].completed},
                                    sentAtStart |->
                                        {f \in FollowUpIds : followups[f].reminder_sent}])
    /\ UNCHANGED <<now, profile, followups, log, call, sentToday,
                   notifs, txn, threads, started, ncalls>>

\* lines 310-319: the next follow-up of the due-today loop; one without a
\* sales_executive is passed over
ScanTodayNext(s) ==
    /\ scan[s].pc = "today"
    /\ scan[s].items # <<>>
    /\ call[s].stage = "none"
    /\ LET it == Head(scan[s].items)
       IN  IF HasRecipient(it.row)
           THEN /\ SendCall(s, "plain", it.row.sales_executive, ReminderTitle,
                            DueTodayMessage(it.row.customer), "followup_reminder", {},
                            it.id, scan[s].run)
                /\ sentToday' = sentToday \cup {it.id}
                /\ scan' = scan
           ELSE /\ scan' = [scan EXCEPT ![s].items = Tail(@)]
                /\ UNCHANGED <<call, sentToday>>
    /\ UNCHANGED <<now, profile, followups, log, runs,
                   notifs, txn, threads, started, ncalls>>

\* lines 310-321, 330-339: the send raises nothing and its value is not looked at,
\* so both for loops go on to the next follow-up whatever the send returned
ScanContinuesIfDelivered(ret) == ret
ScanContinues(ret) == TRUE

\* lines 320-321: the flag is set on the instance the queryset gave, and save()
\* writes every field of that instance
FlagAfterSendIfDelivered(ret) == ret
FlagAfterSend(ret) == TRUE

ScanTodaySave(s) ==
    /\ scan[s].pc = "today"
    /\ call[s].stage = "returned"
    /\ LET it == Head(scan[s].items)
       IN  followups' = [followups EXCEPT ![it.id] =
               [it.row EXCEPT !.reminder_sent =
                   IF FlagAfterSend(call[s].ret) THEN TRUE ELSE it.row.reminder_sent]]
    /\ scan' = [scan EXCEPT ![s].items = IF ScanContinues(call[s].ret) THEN Tail(@) ELSE <<>>]
    /\ call' = [call EXCEPT ![s] = NoCall]
    /\ UNCHANGED <<now, profile, log, runs, sentToday,
                   notifs, txn, threads, started, ncalls>>

\* lines 324-328: the due-tomorrow queryset, evaluated after the due-today loop
ScanTodayEnd(s) ==
    /\ scan[s].pc = "today"
    /\ scan[s].items = <<>>
    /\ call[s].stage = "none"
    /\ scan' = [scan EXCEPT ![s].pc = "tomorrow", ![s].items = QuerySet(scan[s].today + 1)]
    /\ runs' = [runs EXCEPT ![scan[s].run].selTomorrow = Ids(QuerySet(scan[s].today + 1))]
    /\ UNCHANGED <<now, profile, followups, log, call, sentToday,
                   notifs, txn, threads, started, ncalls>>

\* lines 330-339: the due-tomorrow loop sends and changes no row
ScanTomorrowNext(s) ==
    /\ scan[s].pc = "tomorrow"
    /\ scan[s].items # <<>>
    /\ call[s].stage = "none"
    /\ LET it == Head(scan[s].items)
       IN  IF HasRecipient(it.row)
           THEN /\ SendCall(s, "plain", it.row.sales_executive, ReminderTitle,
                            DueTomorrowMessage(it.row.customer), "followup_reminder", {},
                            it.id, scan[s].run)
                /\ scan' = scan
           ELSE /\ scan' = [scan EXCEPT ![s].items = Tail(@)]
                /\ call' = call
    /\ UNCHANGED <<now, profile, followups, log, runs, sentToday,
                   notifs, txn, threads, started, ncalls>>

\* lines 333-339: after the due-tomorrow send nothing is assigned and nothing saved
FlagAfterTomorrowSendAlways(ret) == TRUE
FlagAfterTomorrowSend(ret) == FALSE

ScanTomorrowReturn(s) ==
    /\ scan[s].pc = "tomorrow"
    /\ call[s].stage = "returned"
    /\ LET it == Head(scan[s].items)
       IN  followups' = IF FlagAfterTomorrowSend(call[s].ret)
                        THEN [followups EXCEPT ![it.id] = [it.row EXCEPT !.reminder_sent = TRUE]]
                        ELSE followups
    /\ scan' = [scan EXCEPT ![s].items = IF ScanContinues(call[s].ret) THEN Tail(@) ELSE <<>>]
    /\ call' = [call EXCEPT ![s] = NoCall]
    /\ UNCHANGED <<now, profile, log, runs, sentToday,
                   notifs, txn, threads, started, ncalls>>

ScanEnd(s) ==
    /\ scan[s].pc = "tomorrow"
    /\ scan[s].items = <<>>
    /\ call[s].stage = "none"
    /\ scan' = [scan EXCEPT ![s] = ScanIdle]
    /\ runs' = [runs EXCEPT ![scan[s].run].done = TRUE]
    /\ UNCHANGED <<now, profile, followups, log, call, sentToday,
                   notifs, txn, threads, started, ncalls>>

ScanCredential(s) ==
    /\ SendCredential(s, CredEnvClasses)
    /\ UNCHANGED <<now, profile, followups, scan, runs, sentToday,
                   notifs, txn, threads, started, ncalls>>

ScanResponse(s) ==
    /\ SendResponse(s, ScanResponses)
    /\ UNCHANGED <<now, profile, followups, scan, runs, sentToday,
                   notifs, txn, threads, started, ncalls>>

\* FollowUpViewSet.mark_completed (api/views.py:263-270)
MarkCompleted(f) ==
    /\ followups[f].exists
    /\ ~followups[f].completed
    /\ followups' = [followups EXCEPT ![f].completed = TRUE]
    /\ UNCHANGED <<now, profile, log, call, scan, runs, sentToday,
                   notifs, txn, threads, started, ncalls>>

\* the clock.  A scanner run reads it once, in its first step (line 300), so a
\* tick during a run has the effect of the same tick right after the run: ticks
\* are taken between runs.
AdvanceTime ==
    /\ now < MaxNow
    /\ \A s \in Scanners : scan[s].pc = "idle"
    /\ now' = now + 1
    /\ UNCHANGED <<profile, followups, log, call, scan, runs, sentToday,
                   notifs, txn, threads, started, ncalls>>

(* Specification SpecScan: one scanner process, run again and again by the
   scheduler, over follow-ups that belong to a user with a token, a user
   without one, or nobody. *)

\* the follow-ups are due on one of the first two days
MaxDue == 2 * TicksPerDay - 1

ScanFollowUps ==
    [exists : {TRUE}, customer : {"Acme"}, sales_executive : {NoUser, "u1", "u2"},
     due_date : 0..MaxDue, completed : {FALSE}, reminder_sent : {FALSE}]

InitScan ==
    /\ InitCommon
    /\ now = 0
    /\ profile = [u \in Users |-> IF u = "u1" THEN HasToken
                                  ELSE IF u = "u2" THEN HasNoToken ELSE NoProfile]
    /\ followups \in [FollowUpIds -> ScanFollowUps]
    \* the two ids are interchangeable: one of each pair of mirrored tables
    /\ followups[1].due_date <= followups[2].due_date
    \* the follow-up without a sales executive, if there is one, is the first
    /\ followups[2].sales_executive # NoUser

NextScan ==
    \/ ScanStart("s1")
    \/ ScanTodayNext("s1")
    \/ ScanCredential("s1")
    \/ ScanResponse("s1")
    \/ ScanTodaySave("s1")
    \/ ScanTodayEnd("s1")
    \/ ScanTomorrowNext("s1")
    \/ ScanTomorrowReturn("s1")
    \/ ScanEnd("s1")
    \/ \E f \in FollowUpIds : MarkCompleted(f)
    \/ AdvanceTime

SpecScan == InitScan /\ [][NextScan]_vars

(* Specification SpecBatch: the scanner over two follow-ups of one user who holds
   a token, due at the same time, with every class of answer of the push
   service. *)

ScanResponseAny(s) ==
    /\ SendResponse(s, ResponseClasses)
    /\ UNCHANGED <<now, profile, followups, scan, runs, sentToday,
                   notifs, txn, threads, started, ncalls>>

InitBatch ==
    /\ InitScan
    /\ \A f \in FollowUpIds : followups[f].sales_executive = "u1"
    \* both follow-ups fall into the same pass of a run
    /\ followups[1].due_date = followups[2].due_date

NextBatch ==
    \/ ScanStart("s1")
    \/ ScanTodayNext("s1")
    \/ ScanCredential("s1")
    \/ ScanResponseAny("s1")
    \/ ScanTodaySave("s1")
    \/ ScanTodayEnd("s1")
    \/ ScanTomorrowNext("s1")
    \/ ScanTomorrowReturn("s1")
    \/ ScanEnd("s1")
    \/ AdvanceTime

SpecBatch == InitBatch /\ [][NextBatch]_vars

(* Specification SpecRace: two scanner processes (two instances of the
   management command) whose runs interleave step by step within one day.  The
   first follow-up belongs to the user with a token and is due on the day of the
   runs. *)

InitRace ==
    /\ InitScan
    /\ followups[1].sales_executive = "u1"
    /\ followups[1].due_date = 0

NextRace ==
    \/ \E s \in Scanners : ScanStart(s)
    \/ \E s \in Scanners : ScanTodayNext(s)
    \/ \E s \in Scanners : ScanCredential(s)
    \/ \E s \in Scanners : ScanResponse(s)
    \/ \E s \in Scanners : ScanTodaySave(s)
    \/ \E s \in Scanners : ScanTodayEnd(s)
    \/ \E s \in Scanners : ScanTomorrowNext(s)
    \/ \E s \in Scanners : ScanTomorrowReturn(s)
    \/ \E s \in Scanners : ScanEnd(s)
    \/ \E f \in FollowUpIds : MarkCompleted(f)

SpecRace == InitRace /\ [][NextRace]_vars

----------------------------------------------------------------------------
(* Event-triggered dispatcher: the post_save receiver of crm/signals.py:22-30
   and send_system_notification_fcm (crm/services.py:144-182). *)

\* signals.py:25 `if created:`
ShouldDispatchAlways(created) == TRUE
ShouldDispatch(created) == created

\* signals.py:28-30: threading.Thread(target=send_system_notification_fcm,
\* args=(instance,)), daemon = True, start(); the receiver does not join the thread,
\* so save() returns with the thread at its first statement
SpawnedThreadJoined(inst) == [NoThread EXCEPT !.pc = "done", !.inst = inst]
SpawnedThread(inst) == [NoThread EXCEPT !.pc = "start", !.inst = inst]

\* post_save(sender=SystemNotification): on creation a daemon thread is started with
\* the saved instance (signals.py:27-30).  The receiver runs inside save(), after
\* the INSERT or UPDATE was executed and whether or not a transaction is open.
PostSave(n, created, inst) ==
    IF ShouldDispatch(created)
    THEN /\ threads' = [threads EXCEPT ![n] = SpawnedThread(inst)]
         /\ started' = [started EXCEPT ![n] = @ + 1]
    ELSE UNCHANGED <<threads, started>>

\* ids are given in sequence: the next row gets the smallest id not used yet
NextId(n) == txn[n] = "none" /\ \A m \in NotifIds : m < n => txn[m] # "none"

NotifTitle == <<"New lead assigned">>
NotifMessage == <<"A new lead was assigned to you">>

NewNotif(u, link) ==
    [exists |-> TRUE, user |-> u, title |-> NotifTitle, message |-> NotifMessage,
     notification_type |-> "new_lead", link |-> link, is_read |-> FALSE, read_at |-> -1,
     by |-> NoUser]

\* POST /system-notifications/ (api/views.py:289-293, api/serializers.py:203-209):
\* `user` is no field of the serializer, so the row is created with user=None.  The
\* request runs in autocommit mode: the INSERT is committed when save() sends
\* post_save.  permission_classes is [IsAuthenticated] and nothing else, so the
\* requester `who` is any user; the row keeps `who` as a history field (`by`, no
\* column of the table; NoUser for a row made on the admin site).
RestCreateBy(n, who) ==
    /\ NextId(n)
    /\ notifs' = [notifs EXCEPT ![n] = [NewNotif(NoUser, "/leads/7") EXCEPT !.by = who]]
    /\ PostSave(n, TRUE, [NewNotif(NoUser, "/leads/7") EXCEPT !.by = who])
    /\ txn' = [txn EXCEPT ![n] = "committed"]
    /\ UNCHANGED <<now, profile, followups, log, call, scan, runs, sentToday, ncalls>>

\* the request of the user "u1"
RestCreate(n) == RestCreateBy(n, "u1")

\* The admin add view of SystemNotificationAdmin (crm/admin.py:48-54).  ModelAdmin
\* runs the view in transaction.atomic(): obj.save() executes the INSERT and sends
\* post_save while the transaction is open; the view then writes its LogEntry and
\* builds the response, and the transaction commits when the view returns, or rolls
\* back when one of these raises.
AdminCreate(n) ==
    /\ NextId(n)
    /\ \E u \in Users \cup {NoUser} :
          /\ notifs' = [notifs EXCEPT ![n] = NewNotif(u, "")]
          /\ PostSave(n, TRUE, NewNotif(u, ""))
    /\ txn' = [txn EXCEPT ![n] = "open"]
    /\ UNCHANGED <<now, profile, followups, log, call, scan, runs, sentToday, ncalls>>

AdminCommit(n) ==
    /\ txn[n] = "open"
    /\ txn' = [txn EXCEPT ![n] = "committed"]
    /\ UNCHANGED <<now, profile, followups, log, call, scan, runs, sentToday,
                   notifs, threads, started, ncalls>>

AdminRollback(n) ==
    /\ txn[n] = "open"
    /\ txn' = [txn EXCEPT ![n] = "rolled_back"]
    /\ notifs' = [notifs EXCEPT ![n] = NoNotif]
    /\ UNCHANGED <<now, profile, followups, log, call, scan, runs, sentToday,
                   threads, started, ncalls>>

\* get_queryset of SystemNotificationViewSet (api/views.py:298-303): the committed
\* rows of the requesting user and the rows for all users
Visible(n, u) ==
    /\ txn[n] = "committed"
    /\ notifs[n].exists
    /\ notifs[n].user \in {u, NoUser}

\* SystemNotification.mark_as_read (crm/models.py:218-223) behind the mark_read
\* action (api/views.py:305-311): save(update_fields=...) sends post_save with
\* created=False
MarkRead(n, u) ==
    /\ Visible(n, u)
    /\ ~notifs[n].is_read
    /\ notifs' = [notifs EXCEPT ![n].is_read = TRUE, ![n].read_at = now]
    /\ PostSave(n, FALSE, notifs'[n])
    /\ UNCHANGED <<now, profile, followups, log, call, scan, runs, sentToday, txn, ncalls>>

\* unread_count (api/views.py:326-334): the number of the unread rows among the
\* rows of the requesting user and the rows for all users
UnreadCount(u) ==
    Cardinality({n \in NotifIds :
                    /\ txn[n] = "committed"
                    /\ notifs[n].exists
                    /\ notifs[n].user \in {u, NoUser}
                    /\ ~notifs[n].is_read})

\* mark_all_read (api/views.py:313-324): QuerySet.update sends no signal
MarkAllRead(u) ==
    /\ \E n \in NotifIds : Visible(n, u) /\ ~notifs[n].is_read
    /\ notifs' = [n \in NotifIds |->
          IF Visible(n, u) /\ ~notifs[n].is_read
          THEN [notifs[n] EXCEPT !.is_read = TRUE, !.read_at = now]
          ELSE notifs[n]]
    /\ UNCHANGED <<now, profile, followups, log, call, scan, runs, sentToday,
                   txn, threads, started, ncalls>>

\* PATCH /system-notifications/<id>/ (ModelViewSet.partial_update): is_read is a
\* writable field of the serializer; serializer.save() calls save(), which sends
\* post_save with created=False
RestPatchIsRead(n, u) ==
    /\ Visible(n, u)
    /\ notifs' = [notifs EXCEPT ![n].is_read = ~@]
    /\ PostSave(n, FALSE, notifs'[n])
    /\ UNCHANGED <<now, profile, followups, log, call, scan, runs, sentToday, txn, ncalls>>

\* services.py:157: User.objects.filter(profile__fcm_token__isnull=False)
\*                               .exclude(profile__fcm_token='')
TokenHolders ==
    {u \in Users : profile[u].exists /\ profile[u].fcm_token \notin {NullToken, ""}}

RECURSIVE InIdOrder(_)
InIdOrder(S) ==
    IF S = {} THEN <<>>
    ELSE LET u == CHOOSE x \in S : \A y \in S : x = y \/ UserId(x) < UserId(y)
         IN  <<u>> \o InIdOrder(S \ {u})

\* services.py:151-157: the target users
TargetsAlwaysBroadcast(inst) == InIdOrder(TokenHolders)
TargetsFirstOnly(inst) ==
    IF inst.user # NoUser THEN <<inst.user>>
    ELSE SubSeq(InIdOrder(TokenHolders), 1, 1)
Targets(inst) ==
    IF inst.user # NoUser THEN <<inst.user>> ELSE InIdOrder(TokenHolders)

\* services.py:163-173: the data map of the push
DataPayload(n, inst) ==
    { <<"type", PyStr(<<"system_notification">>)>>,
      <<"notification_type", PyStr(<<inst.notification_type>>)>>,
      <<"notification_id", PyStr(<<IdStr(n)>>)>>,
      <<"title", PyStr(inst.title)>>,
      <<"body", PyStr(inst.message)>> }
    \cup (IF inst.link # "" THEN {<<"link", PyStr(<<inst.link>>)>>} ELSE {})

\* the thread's first step: the target users are read (the queryset of line 157 is
\* evaluated when the for loop starts)
DispatchStart(n) ==
    /\ threads[n].pc = "start"
    /\ threads' = [threads EXCEPT ![n].pc = "loop", ![n].users = Targets(threads[n].inst),
                                  ![n].holders = {u \in Users : ~MissingToken(u)}]
    /\ UNCHANGED <<now, profile, followups, log, call, scan, runs, sentToday,
                   notifs, txn, started, ncalls>>

\* services.py:176-182: the value the send returned is dropped, and nothing is
\* assigned to the notification or saved
NotifAfterSendUnreadOnFailure(row, ret) ==
    IF ret THEN row ELSE [row EXCEPT !.is_read = FALSE, !.read_at = -1]
NotifAfterSend(row, ret) == row

\* services.py:160, 176-182: the send raises nothing and its value is not looked
\* at, so the for loop goes on to the next user whatever the send returned
DispatchContinuesIfDelivered(ret) == ret
DispatchContinues(ret) == TRUE

\* services.py:160-182: one iteration of the loop.  user.profile is read here, and
\* the send reads the same cached profile object.
DispatchNext(n) ==
    /\ threads[n].pc = "loop"
    /\ call[DProc(n)].stage \in {"none", "returned"}
    /\ LET d == DProc(n)
           rest == IF call[d].stage = "returned"
                   THEN IF DispatchContinues(call[d].ret)
                        THEN Tail(threads[n].users) ELSE <<>>
                   ELSE threads[n].users
           inst == threads[n].inst
       IN  IF rest = <<>>
           THEN /\ threads' = [threads EXCEPT ![n].pc = "done", ![n].users = <<>>]
                /\ call' = [call EXCEPT ![d] = NoCall]
           ELSE IF ~MissingToken(Head(rest))
                THEN /\ SendCall(d, "with_data", Head(rest), inst.title, inst.message,
                                 inst.notification_type, DataPayload(n, inst), n, 1)
                     /\ threads' = [threads EXCEPT ![n].users = rest]
                ELSE /\ threads' = [threads EXCEPT ![n].users = Tail(rest)]
                     /\ call' = [call EXCEPT ![d] = NoCall]
    /\ notifs' = IF call[DProc(n)].stage = "returned"
                 THEN [notifs EXCEPT ![n] = NotifAfterSend(@, call[DProc(n)].ret)]
                 ELSE notifs
    /\ UNCHANGED <<now, profile, followups, log, scan, runs, sentToday,
                   txn, started, ncalls>>

DispatchCredential(n) ==
    /\ threads[n].pc = "loop"
    /\ SendCredential(DProc(n), CredEnvClasses)
    /\ UNCHANGED <<now, profile, followups, scan, runs, sentToday,
                   notifs, txn, threads, started, ncalls>>

DispatchResponse(n, R) ==
    /\ threads[n].pc = "loop"
    /\ SendResponse(DProc(n), R)
    /\ UNCHANGED <<now, profile, followups, scan, runs, sentToday,
                   notifs, txn, threads, started, ncalls>>

(* Specification SpecFanout: one notification, created through the REST
   endpoint or the admin site, is pushed by its dispatcher thread to users of
   whom three, one or (after a registration) four hold a token. *)

HolderOf(tok) == [exists |-> TRUE, fcm_token |-> tok, role |-> "sales_executive"]

ThreeHolders == [u \in Users |-> IF u = "u4" THEN HasNoToken ELSE HasToken]
OneHolder ==
    [u \in Users |-> IF u = "u1" THEN HasToken
                     ELSE IF u = "u2" THEN HolderOf(NullToken)
                     ELSE IF u = "u3" THEN NoProfile ELSE HasNoToken]

InitFanout ==
    /\ InitCommon
    /\ now = 0
    /\ profile \in {ThreeHolders, OneHolder}
    /\ followups = [f \in FollowUpIds |-> NoFollowUp]

DispatchRegisterToken ==
    /\ UpdateFcmToken("u4", "tokB")
    /\ UNCHANGED <<now, followups, log, call, scan, runs, sentToday,
                   notifs, txn, threads, started, ncalls>>

\* The process ends (the server is stopped or restarted).  A daemon thread
\* (signals.py:29) is not waited for: it stops where it is, and the send it was
\* in writes nothing more.
ProcessExit ==
    /\ \E n \in NotifIds : threads[n].pc \in {"start", "loop"}
    /\ threads' = [n \in NotifIds |->
          IF threads[n].pc \in {"start", "loop"}
          THEN [threads[n] EXCEPT !.pc = "killed"] ELSE threads[n]]
    /\ txn' = [n \in NotifIds |-> IF txn[n] = "open" THEN "rolled_back" ELSE txn[n]]
    /\ notifs' = [n \in NotifIds |-> IF txn[n] = "open" THEN NoNotif ELSE notifs[n]]
    /\ UNCHANGED <<now, profile, followups, log, call, scan, runs, sentToday,
                   started, ncalls>>

NextFanout ==
    \/ ProcessExit
    \/ \E who \in Users : RestCreateBy(1, who)
    \/ AdminCreate(1)
    \/ AdminCommit(1)
    \/ AdminRollback(1)
    \/ DispatchStart(1)
    \/ DispatchNext(1)
    \/ DispatchCredential(1)
    \/ DispatchResponse(1, ResponseClasses)
    \/ DispatchRegisterToken

SpecFanout == InitFanout /\ [][NextFanout]_vars

(* Specification SpecNotify: two notifications are created through the REST
   endpoint and the admin site, committed or rolled back, read and patched by
   their users, and pushed by their dispatcher threads. *)

InitNotify ==
    /\ InitCommon
    /\ now = 0
    /\ profile = OneHolder
    /\ followups = [f \in FollowUpIds |-> NoFollowUp]

NextNotify ==
    \/ \E n \in NotifIds : RestCreate(n)
    \/ \E n \in NotifIds : AdminCreate(n)
    \/ \E n \in NotifIds : AdminCommit(n)
    \/ \E n \in NotifIds : AdminRollback(n)
    \/ \E n \in NotifIds, u \in Users : MarkRead(n, u)
    \/ \E u \in Users : MarkAllRead(u)
    \/ \E n \in NotifIds, u \in Users : RestPatchIsRead(n, u)
    \/ \E n \in NotifIds : DispatchStart(n)
    \/ \E n \in NotifIds : DispatchNext(n)
    \/ \E n \in NotifIds : DispatchCredential(n)
    \/ \E n \in NotifIds : DispatchResponse(n, ResponseClasses)

SpecNotify == InitNotify /\ [][NextNotify]_vars

(* Specification SpecPipeline: the three writers of the log side by side: one
   scanner run, the dispatcher thread of one broadcast notification, and direct
   calls of the send entry points, all for the one user who holds a token. *)

InitPipeline ==
    /\ InitCommon
    /\ now = 0
    /\ profile = OneHolder
    /\ followups \in [FollowUpIds -> ScanFollowUps]
    /\ \A f \in FollowUpIds :
          followups[f].sales_executive = "u1" /\ followups[f].due_date = f - 1

PipelineCall ==
    /\ call["c1"].stage \in {"none", "returned"}
    /\ ncalls < MaxCalls
    /\ ncalls' = ncalls + 1
    /\ \/ SendCall("c1", "plain", "u1", DirectTitle, DirectMessage, "test", {}, 0, ncalls + 1)
       \/ SendCall("c1", "with_data", "u1", DirectTitle, DirectMessage, "test", TypedData, 0,
                    ncalls + 1)
    /\ UNCHANGED <<now, profile, followups, log, scan, runs, sentToday,
                   notifs, txn, threads, started>>

PipelineCredential ==
    /\ SendCredential("c1", CredEnvClasses)
    /\ UNCHANGED <<now, profile, followups, scan, runs, sentToday,
                   notifs, txn, threads, started, ncalls>>

PipelineResponse ==
    /\ SendResponse("c1", ScanResponses)
    /\ UNCHANGED <<now, profile, followups, scan, runs, sentToday,
                   notifs, txn, threads, started, ncalls>>

NextPipeline ==
    \/ ScanStart("s1")
    \/ ScanTodayNext("s1")
    \/ ScanCredential("s1")
    \/ ScanResponse("s1")
    \/ ScanTodaySave("s1")
    \/ ScanTodayEnd("s1")
    \/ ScanTomorrowNext("s1")
    \/ ScanTomorrowReturn("s1")
    \/ ScanEnd("s1")
    \/ RestCreate(1)
    \/ DispatchStart(1)
    \/ DispatchNext(1)
    \/ DispatchCredential(1)
    \/ DispatchResponse(1, ScanResponses)
    \/ PipelineCall
    \/ PipelineCredential
    \/ PipelineResponse

SpecPipeline == InitPipeline /\ [][NextPipeline]_vars


----------------------------------------------------------------------------
(* Claims about the dispatcher, checked under SpecFanout and SpecNotify *)

\* the log rows the dispatcher thread of notification n wrote for user u
RowsOfDispatch(n, u) == {r \in log : r.proc = DProc(n) /\ r.ref = n /\ r.user = u}

\* C5: the dispatch of a notification with user=None writes, by the time its thread
\* has finished, exactly one log row for every user that held a non-empty token
\* when the thread read its targets and none for any other user; while the thread
\* runs there is never more than one row per such user.
C5_BroadcastFanOut ==
    \A n \in NotifIds :
        (threads[n].pc \in {"loop", "done"} /\ threads[n].inst.user = NoUser) =>
            \A u \in Users :
                /\ u \notin threads[n].holders => RowsOfDispatch(n, u) = {}
                /\ Cardinality(RowsOfDispatch(n, u)) <= 1
                /\ (threads[n].pc = "done" /\ u \in threads[n].holders)
                      => Cardinality(RowsOfDispatch(n, u)) = 1

C5_Witness ==
    /\ threads[1].pc = "done"
    /\ threads[1].inst.user = NoUser
    /\ threads[1].holders = {"u1", "u2", "u3"}
    /\ Cardinality(log) = 3
    /\ RowsOfDispatch(1, "u4") = {}
    /\ \E r \in RowsOfDispatch(1, "u1") : ~r.success
    /\ \E r \in RowsOfDispatch(1, "u3") : r.success

\* C8: a dispatcher thread was started exactly once for every notification that was
\* created, and never for an id that was not; no update starts another.
C8_DispatchOncePerCreation ==
    \A n \in NotifIds : started[n] = IF txn[n] = "none" THEN 0 ELSE 1

C8_Witness ==
    /\ started[1] = 1 /\ started[2] = 1
    /\ threads[1].pc = "done" /\ threads[2].pc = "done"
    /\ notifs[1].is_read /\ notifs[1].read_at = now
    /\ notifs[2].exists /\ ~notifs[2].is_read /\ notifs[2].read_at = now

\* C9 as claimed: whenever the POST for a notification is out, the transaction that
\* inserted the notification is committed.
C9_SendOnlyAfterCommit ==
    \A n \in NotifIds :
        (call[DProc(n)].stage = "post" /\ call[DProc(n)].ref = n) => txn[n] = "committed"

\* C10: no step of a dispatcher thread, whatever its sends return, changes a
\* SystemNotification row or the outcome of the transaction that inserted it.
C10_DispatchLeavesNotification ==
    [][ \A n \in NotifIds :
          ( /\ threads[n].pc \in {"start", "loop"}
            /\ threads'[n] # threads[n] \/ call'[DProc(n)] # call[DProc(n)] )
          => notifs' = notifs /\ txn' = txn ]_vars

C10_Witness ==
    /\ threads[1].pc = "done" /\ threads[2].pc = "done"
    /\ \E r \in RowsOfDispatch(1, "u1") : ~r.success /\ r.error_message = CredFailText
    /\ \E r \in RowsOfDispatch(2, "u1") : ~r.success /\ r.error_message = RespException.exc
    /\ txn[1] = "committed" /\ notifs[1].is_read /\ notifs[1].read_at = now
    /\ txn[2] = "committed" /\ notifs[2].exists /\ ~notifs[2].is_read

\* the users a dispatcher thread has still to serve
Queued(n) == {threads[n].users[i] : i \in 1..Len(threads[n].users)}

\* all log rows the dispatcher thread of notification n wrote
RowsOfThread(n) == {r \in log : r.proc = DProc(n) /\ r.ref = n}

\* C23: the thread of a notification that names a user writes rows for that user
\* only, at most one, none unless the user holds a token, and exactly one by its end
\* when the user held a token at its start; the thread of a notification that names
\* nobody serves only users who held a non-empty token when it read its targets.
C23_AudienceResolution ==
    \A n \in NotifIds :
        threads[n].pc \in {"loop", "done"} =>
            IF threads[n].inst.user # NoUser
            THEN /\ \A r \in RowsOfThread(n) : r.user = threads[n].inst.user
                 /\ Cardinality(RowsOfThread(n)) <= 1
                 /\ RowsOfThread(n) # {} => ~MissingToken(threads[n].inst.user)
                 /\ Queued(n) \subseteq {threads[n].inst.user}
                 /\ (threads[n].pc = "done" /\ threads[n].inst.user \in threads[n].holders)
                       => Cardinality(RowsOfThread(n)) = 1
            ELSE /\ \A r \in RowsOfThread(n) : r.user \in threads[n].holders
                 /\ Queued(n) \subseteq threads[n].holders

C23_Witness ==
    /\ threads[1].pc = "done"
    /\ threads[1].inst.user = "u2"
    /\ threads[1].holders = {"u1", "u2", "u3"}
    /\ Cardinality(log) = 1
    /\ \E r \in log : r.user = "u2" /\ r.success /\ r.proc = "d1"

\* C24: creating a System Notification does not wait for delivery: the step that
\* creates the row ends with the dispatcher thread at its first statement, no send
\* begun and no log row written; and a send that was abandoned because the process
\* ended (before or after its POST was issued) has left no log row of that attempt.
C24_FireAndForget ==
    /\ [](\A n \in NotifIds :
            (threads[n].pc = "killed" /\ call[DProc(n)].stage \in {"cred", "post"})
                => RowsOfDispatch(n, call[DProc(n)].user) = {})
    /\ [][\A n \in NotifIds :
            (txn[n] = "none" /\ txn'[n] # "none")
                => /\ threads'[n].pc = "start"
                   /\ log' = log
                   /\ call' = call]_vars
C24_Witness ==
    /\ txn[1] = "committed"
    /\ threads[1].pc = "killed"
    /\ call["d1"].stage = "post"
    /\ call["d1"].user = "u2"
    /\ Cardinality(log) = 1
    /\ \A r \in log : r.user = "u1"

\* C29 as claimed: a notification created through the REST endpoint by a user who
\* is no admin causes a push and a log row for no user but its creator.
C29_RestCreateReachesOnlyCreator ==
    \A n \in NotifIds :
        LET who == threads[n].inst.by
        IN  (who # NoUser /\ ~(profile[who].exists /\ profile[who].role = "admin")) =>
                /\ \A r \in RowsOfThread(n) : r.user = who
                /\ call[DProc(n)].httpCalled => call[DProc(n)].user = who

\* C30 as claimed: a mark_read or mark_all_read of one user changes, for no other
\* user, the unread count or the read state of a notification that user can see.
C30_MarkReadIsPerUser ==
    [][\A a \in Users :
          ((\E n \in NotifIds : MarkRead(n, a)) \/ MarkAllRead(a)) =>
              \A b \in Users \ {a} :
                  /\ UnreadCount(b)' = UnreadCount(b)
                  /\ \A n \in NotifIds :
                        Visible(n, b) => notifs'[n].is_read = notifs[n].is_read]_vars

\* C11: in a broadcast, once the send to one user has failed (credential failure,
\* rejection or transport exception), every other user of the audience either has
\* its own log row or is still waiting for its turn; when the thread has finished
\* nobody is waiting, so every other user has its own row.
C11_IndependentDelivery ==
    \A n \in NotifIds :
        (threads[n].pc \in {"loop", "done"} /\ threads[n].inst.user = NoUser) =>
            /\ threads[n].pc = "done" => threads[n].users = <<>>
            /\ \A u \in threads[n].holders :
                  (\E r \in RowsOfDispatch(n, u) : ~r.success) =>
                      \A v \in threads[n].holders \ {u} :
                          RowsOfDispatch(n, v) # {} \/ v \in Queued(n)

C11_Witness ==
    /\ threads[1].pc = "done"
    /\ threads[1].inst.user = NoUser
    /\ threads[1].holders = {"u1", "u2", "u3"}
    /\ \E r \in RowsOfDispatch(1, "u1") : ~r.success /\ r.error_message = RespException.exc
    /\ \E r \in RowsOfDispatch(1, "u2") : ~r.success /\ r.error_message = CredFailText
    /\ \E r \in RowsOfDispatch(1, "u3") : r.success /\ r.posted

----------------------------------------------------------------------------
(* Claims about the reminder scanner, checked under SpecScan *)

IsDueToday(msg) == msg[3] = " is due today"
IsDueTomorrow(msg) == msg[3] = " is due tomorrow"

\* log rows written for follow-up f by scanner run r
RowsOfRun(f, r) ==
    {x \in log : x.proc \in Scanners /\ x.ref = f /\ x.run = r}

\* POSTs issued for follow-up f with the due-today message: the logged ones and
\* those still waiting for the response
DueTodayPosts(f) ==
    Cardinality({x \in log :
                    /\ x.proc \in Scanners /\ x.ref = f
                    /\ x.posted /\ IsDueToday(x.message)})
    + Cardinality({s \in Scanners :
                    /\ call[s].stage = "post" /\ call[s].ref = f
                    /\ IsDueToday(call[s].message)})

\* a scanner is between the due-today send call for f and the save that follows it
InDueTodaySend(f) ==
    \E s \in Scanners :
        scan[s].pc = "today" /\ call[s].stage # "none" /\ call[s].ref = f

\* C1: with the scanner run one run after the other, a follow-up gets at most one
\* "due today" push; once the due-today send was made for it and the run has saved
\* it, reminder_sent is true, and no later run writes a log row for it.
C1_DueTodayIdempotent ==
    \A f \in FollowUpIds :
        /\ DueTodayPosts(f) <= 1
        /\ (f \in sentToday /\ ~InDueTodaySend(f)) => followups[f].reminder_sent
        /\ \A x, y \in log :
              ( /\ x.proc \in Scanners /\ x.ref = f /\ IsDueToday(x.message)
                /\ y.proc \in Scanners /\ y.ref = f )
              => y.run <= x.run

C1_Witness ==
    /\ Len(runs) = 2
    /\ runs[1].done /\ runs[2].done
    /\ runs[1].today = runs[2].today
    /\ \E f \in FollowUpIds :
          /\ f \in runs[1].selToday
          /\ ~followups[f].completed
          /\ followups[f].reminder_sent
          /\ DueTodayPosts(f) = 1
          /\ RowsOfRun(f, 1) # {}
          /\ RowsOfRun(f, 2) = {}

\* the recipient of follow-up f holds a registration token
RecipientHasToken(f) ==
    /\ followups[f].sales_executive # NoUser
    /\ ~MissingToken(followups[f].sales_executive)

\* the rows of RowsOfRun(f, r) are one row, with message kind K, and it stands for
\* a POST unless the credential provider gave no token
OneRow(f, r, IsKind(_)) ==
    /\ Cardinality(RowsOfRun(f, r)) = 1
    /\ \A x \in RowsOfRun(f, r) :
          /\ IsKind(x.message)
          /\ x.user = followups[f].sales_executive
          /\ x.posted \/ x.error_message = CredFailText

\* C3: a follow-up that the due-tomorrow queryset of a run gives, whose recipient
\* holds a token, has after that run one "due tomorrow" row and reminder_sent still
\* false; when the next run is on the next day and its due-today queryset gives the
\* follow-up, that run adds one "due today" row and sets reminder_sent: two rows in
\* all, each a POST when the credential provider gave a token.
C3_TomorrowThenToday ==
    \A f \in FollowUpIds :
        /\ \A r \in 1..Len(runs) :
              (runs[r].done /\ r = Len(runs) /\ f \in runs[r].selTomorrow) =>
                  /\ ~followups[f].reminder_sent
                  /\ RecipientHasToken(f) => OneRow(f, r, IsDueTomorrow)
        /\ \A r \in 1..(Len(runs) - 1) :
              ( /\ runs[r + 1].done
                /\ runs[r + 1].today = runs[r].today + 1
                /\ f \in runs[r].selTomorrow
                /\ f \in runs[r + 1].selToday
                /\ RecipientHasToken(f) ) =>
                  /\ OneRow(f, r, IsDueTomorrow)
                  /\ OneRow(f, r + 1, IsDueToday)
                  /\ followups[f].reminder_sent

C3_Witness ==
    /\ Len(runs) = 2
    /\ runs[2].done
    /\ runs[2].today = runs[1].today + 1
    /\ \E f \in FollowUpIds :
          /\ f \in runs[1].selTomorrow
          /\ f \in runs[2].selToday
          /\ RecipientHasToken(f)
          /\ followups[f].reminder_sent
          /\ Cardinality(log) = 2
          /\ \E x \in RowsOfRun(f, 1) : x.posted /\ IsDueTomorrow(x.message)
          /\ \E x \in RowsOfRun(f, 2) : x.posted /\ IsDueToday(x.message)

\* C4: a follow-up without a sales_executive never gets a send call, a POST or a log
\* row from the scanner, in the due-today and in the due-tomorrow pass, and its
\* reminder_sent stays false.
C4_NoRecipientNoSend ==
    \A f \in FollowUpIds :
        (followups[f].exists /\ followups[f].sales_executive = NoUser) =>
            /\ ~followups[f].reminder_sent
            /\ f \notin sentToday
            /\ \A x \in log : ~(x.proc \in Scanners /\ x.ref = f)
            /\ \A s \in Scanners : ~(call[s].stage # "none" /\ call[s].ref = f)

C4_Witness ==
    /\ Len(runs) = 2
    /\ runs[2].done
    /\ \E f, g \in FollowUpIds :
          /\ followups[f].sales_executive = NoUser
          /\ f \in runs[1].selTomorrow
          /\ f \in runs[2].selToday
          /\ ~followups[f].reminder_sent
          /\ g \in runs[2].selToday
          /\ followups[g].reminder_sent
          /\ RowsOfRun(g, 2) # {}
          /\ RowsOfRun(f, 1) = {} /\ RowsOfRun(f, 2) = {}

\* follow-up g is still to come in the named pass of run r
Pending(g, r, pass) ==
    \E s \in Scanners :
        scan[s].run = r /\ scan[s].pc = pass /\ g \in Ids(scan[s].items)

\* run r wrote a failed row with message kind K
FailedInPass(r, IsKind(_)) ==
    \E x \in log : x.proc \in Scanners /\ x.run = r /\ ~x.success /\ IsKind(x.message)

\* C12: when a send of a scanner run has failed (credential failure, rejection or
\* transport exception), every other follow-up the same pass selected, whose recipient holds
\* a token, has its own row of that run or is still to come in that pass; a run
\* that has returned to its caller has left none out.
C12_FailureDoesNotAbortRun ==
    \A r \in 1..Len(runs) :
        /\ FailedInPass(r, IsDueToday) =>
              \A g \in runs[r].selToday :
                  RecipientHasToken(g) =>
                      \/ \E x \in RowsOfRun(g, r) : IsDueToday(x.message)
                      \/ Pending(g, r, "today")
        /\ FailedInPass(r, IsDueTomorrow) =>
              \A g \in runs[r].selTomorrow :
                  RecipientHasToken(g) =>
                      \/ \E x \in RowsOfRun(g, r) : IsDueTomorrow(x.message)
                      \/ Pending(g, r, "tomorrow")

C12_Witness ==
    /\ Len(runs) = 2
    /\ runs[1].done /\ runs[2].done
    /\ runs[1].selTomorrow = {1, 2}
    /\ runs[2].selToday = {1, 2}
    /\ \E x \in RowsOfRun(1, 1) : ~x.success /\ x.error_message = RespException.exc
    /\ \E x \in RowsOfRun(2, 1) : x.success
    /\ \E x \in RowsOfRun(1, 2) : ~x.success /\ x.error_message = CredFailText
    /\ \E x \in RowsOfRun(2, 2) : ~x.success /\ x.error_message = RespRejected.errmsg
    /\ followups[1].reminder_sent /\ followups[2].reminder_sent

\* C13: no step of a scanner run takes reminder_sent of a follow-up from true back
\* to false, and the only change such a step makes to the flag is from false to
\* true: every save of the scanner writes true, also when it writes a row that it
\* read before another run set the flag.
C13_ReminderSentNeverReset ==
    [][ scan' # scan =>
          \A f \in FollowUpIds :
              /\ followups[f].reminder_sent => followups'[f].reminder_sent
              /\ followups'[f].reminder_sent # followups[f].reminder_sent
                    => (~followups[f].reminder_sent /\ followups'[f].reminder_sent) ]_vars

C13_Witness ==
    /\ Len(runs) = 2
    /\ runs[1].done /\ runs[2].done
    /\ 1 \in runs[1].selToday /\ 1 \in runs[2].selToday
    /\ followups[1].reminder_sent
    /\ \E x \in RowsOfRun(1, 1) : x.success /\ x.seq = 1
    /\ \E y \in RowsOfRun(1, 2) : ~y.success

\* C14: once the due-today pass of a run has gone past a follow-up it selected that
\* has a sales_executive, reminder_sent of the follow-up is true in the table,
\* whether the send was delivered or failed; after a failed due-today send no later
\* run selects the follow-up or writes a row for it.
C14_FlagSetWhateverTheOutcome ==
    \A r \in 1..Len(runs) :
        \A f \in runs[r].selToday :
            (HasRecipient(followups[f]) /\ ~Pending(f, r, "today")) =>
                /\ followups[f].reminder_sent
                /\ (\E x \in RowsOfRun(f, r) : ~x.success) =>
                      \A q \in (r + 1)..Len(runs) :
                          /\ RowsOfRun(f, q) = {}
                          /\ f \notin runs[q].selToday \cup runs[q].selTomorrow

C14_Witness ==
    /\ Len(runs) = 2
    /\ runs[1].done /\ runs[2].done
    /\ runs[1].today = runs[2].today
    /\ runs[1].selToday = {1, 2}
    /\ followups[1].reminder_sent /\ followups[2].reminder_sent
    /\ \E x \in RowsOfRun(1, 1) : ~x.success /\ x.error_message = RespRejected.errmsg
    /\ \E x \in RowsOfRun(2, 1) : x.success
    /\ runs[2].selToday = {}
    /\ Cardinality(log) = 2

C21_TodayInReferenceZone ==
    \A s \in Scanners :
        scan[s].pc # "idle" =>
            LET r == scan[s].run
            IN  runs[r].selToday =
                    {f \in FollowUpIds :
                        /\ followups[f].exists
                        /\ f \notin runs[r].completedAtStart \cup runs[r].sentAtStart
                        /\ DateLookup(followups[f].due_date) = DateLookup(now)}

\* due-tomorrow rows of follow-up f, and the finished runs whose due-tomorrow
\* selection held it
DueTomorrowRows(f) ==
    {x \in log : x.proc \in Scanners /\ x.ref = f /\ IsDueTomorrow(x.message)}
TomorrowRuns(f) ==
    {r \in 1..Len(runs) : runs[r].done /\ f \in runs[r].selTomorrow}

\* C22: no step of the due-tomorrow pass changes a follow-up; for a follow-up whose
\* recipient holds a token, the number of "due tomorrow" rows, once the runs are
\* over, is the number of runs whose due-tomorrow selection held it (N runs on one
\* day give N rows), while it gets at most one "due today" push.
C22_TomorrowResentEveryRun ==
    /\ [](\A f \in FollowUpIds :
            /\ DueTodayPosts(f) <= 1
            /\ ((\A s \in Scanners : scan[s].pc = "idle") /\ RecipientHasToken(f))
                  => Cardinality(DueTomorrowRows(f)) = Cardinality(TomorrowRuns(f)))
    /\ [][ (\E s \in Scanners :
                /\ scan[s].pc = "tomorrow"
                /\ scan'[s] # scan[s] \/ call'[s] # call[s])
            => followups' = followups ]_vars

C22_Witness ==
    /\ Len(runs) = 2
    /\ runs[1].done /\ runs[2].done
    /\ runs[1].today = runs[2].today
    /\ TomorrowRuns(2) = {1, 2}
    /\ RecipientHasToken(2)
    /\ Cardinality(DueTomorrowRows(2)) = 2
    /\ ~followups[2].reminder_sent
    /\ 1 \in runs[1].selToday /\ DueTodayPosts(1) = 1 /\ RowsOfRun(1, 2) = {}

\* C27 as claimed: whenever a step of a scanner run changes a follow-up's
\* reminder_sent from false to true, the log has a row of that run for the
\* follow-up's recipient with the "due today" message.
C27_FlagOnlyWithLoggedAttempt ==
    [][\A s \in Scanners, f \in FollowUpIds :
          (/\ scan[s].pc = "today"
           /\ scan'[s] # scan[s]
           /\ ~followups[f].reminder_sent
           /\ followups'[f].reminder_sent)
             => \E x \in log' :
                    /\ x.proc = s /\ x.ref = f /\ x.run = scan[s].run
                    /\ x.user = followups'[f].sales_executive
                    /\ IsDueToday(x.message)]_vars

\* C28 as claimed: with a scanner run and mark_completed requests interleaved,
\* no update of a follow-up is lost: a completed flag that was set stays set and
\* a reminder_sent flag that was set stays set, in every step.
C28_NoLostUpdate ==
    [][\A f \in FollowUpIds :
          /\ followups[f].completed => followups'[f].completed
          /\ followups[f].reminder_sent => followups'[f].reminder_sent]_vars

\* C19 as claimed: with the runs of two scanners interleaved, a follow-up gets at
\* most one "due today" push in all, counting the POSTs that are logged and those
\* still out.
C19_OnePushAcrossInterleavedRuns ==
    \A f \in FollowUpIds : DueTodayPosts(f) <= 1

----------------------------------------------------------------------------
(* Claims about the log, checked under SpecPipeline *)

\* C16: every row that is in the log before a step is in the log, unchanged, after
\* the step, whichever of the scanner, the dispatcher thread and a direct send
\* takes the step: the log only grows.
C16_LogAppendOnly ==
    [][log \subseteq log']_vars

C16_Witness ==
    /\ \E x, y, z \in log :
          /\ x.proc = "s1" /\ y.proc = "d1" /\ z.proc = "c1"
          /\ x.user = "u1" /\ y.user = "u1" /\ z.user = "u1"
          /\ ~x.success /\ y.success /\ z.success
    /\ Cardinality(log) >= 5
    /\ \E x, y \in log : x.proc = "c1" /\ y.proc = "c1" /\ x.seq # y.seq /\ x.title = y.title

----------------------------------------------------------------------------
(* Claims about the send entry points, checked under SpecSend *)

\* the log rows that the current call of p created, found by their history fields
RowsOfCall(p) ==
    {r \in log : /\ r.proc = p /\ r.run = call[p].run
                 /\ r.ref = call[p].ref /\ r.user = call[p].user}

\* C2: every call of either send entry point that got past the missing-token check
\* and has returned left exactly one NotificationLog row, made from the call's own
\* arguments and token; the row's success flag says whether the push service
\* accepted the message, and the returned boolean equals that flag.
C2_OneLogRowPerSend ==
    \A p \in Procs :
        (call[p].stage = "returned" /\ call[p].credReq) =>
            /\ Len(call[p].logged) = 1
            /\ RowsOfCall(p) = {call[p].logged[1]}
            /\ LET row == call[p].logged[1]
               IN  /\ row.success = call[p].accepted
                   /\ call[p].ret = row.success
                   /\ row.user = call[p].user
                   /\ row.title = call[p].title
                   /\ row.message = call[p].message
                   /\ row.notification_type = call[p].ntype
                   /\ row.fcm_token = call[p].token

C2_Witness ==
    /\ ncalls = 2
    /\ Cardinality(log) = 2
    /\ call["c1"].stage = "returned"
    /\ call["c1"].entry = "with_data"
    /\ call["c1"].credReq
    /\ call["c1"].ret
    /\ \E r \in log : r.run = 1 /\ ~r.success /\ r.posted
    /\ \E r \in log : r.run = 2 /\ r.success

C7_MissingTokenNoOp ==
    [][ \A p \in Procs :
          ( /\ call'[p] # call[p]
            /\ call[p].stage \in {"none", "returned"}
            /\ call'[p].stage # "none"
            /\ LET u == call'[p].user
               IN  ~profile[u].exists \/ profile[u].fcm_token \in {NullToken, ""} )
          => /\ call'[p].stage = "returned"
             /\ call'[p].ret = FALSE
             /\ ~call'[p].credReq
             /\ ~call'[p].httpCalled
             /\ call'[p].logged = <<>>
             /\ log' = log
             /\ profile' = profile
             /\ followups' = followups
             /\ notifs' = notifs ]_vars

C7_Witness ==
    /\ ncalls = 2
    /\ Cardinality(log) = 1
    /\ call["c1"].stage = "returned"
    /\ ~call["c1"].credReq
    /\ ~call["c1"].ret
    /\ profile[call["c1"].user].exists
    /\ profile[call["c1"].user].fcm_token = ""

\* C17: a send whose POST got a response has one log row, decided by the status
\* alone: with status 200, whatever the body, success is true, the error detail is
\* empty and True is returned; with any other status success is false, False is
\* returned, and the error detail is error.message of the body when the body is a
\* JSON object that has it, else the raw text of the response.
C17_ClassifiedByStatus ==
    \A p \in Procs :
        (call[p].stage = "returned" /\ call[p].httpCalled /\ ~call[p].resp.raised) =>
            /\ Len(call[p].logged) = 1
            /\ call[p].logged[1] \in log
            /\ LET row == call[p].logged[1]
                   resp == call[p].resp
               IN  IF resp.status = 200
                   THEN row.success /\ row.error_message = "" /\ call[p].ret
                   ELSE /\ ~row.success
                        /\ ~call[p].ret
                        /\ row.error_message =
                              IF resp.json = "error_message" THEN resp.errmsg ELSE resp.text

C17_Witness ==
    /\ ncalls = 2
    /\ call["c1"].stage = "returned"
    /\ call["c1"].resp = RespOKErrorBody
    /\ call["c1"].ret
    /\ \E r \in log : r.run = 2 /\ r.success /\ r.error_message = ""
    /\ \E r \in log : r.run = 1 /\ ~r.success /\ r.error_message = RespNotADict.text

\* C18: a send whose POST raised returns False to its caller, with nothing raised,
\* and leaves one log row with success false and the text of the exception as its
\* error detail, as a send does whose POST was answered with another status
\* than 200.
C18_TransportExceptionAbsorbed ==
    \A p \in Procs :
        /\ call[p].stage # "raised"
        /\ (call[p].stage = "returned" /\ call[p].httpCalled /\ call[p].resp.raised) =>
              /\ ~call[p].ret
              /\ Len(call[p].logged) = 1
              /\ RowsOfCall(p) = {call[p].logged[1]}
              /\ ~call[p].logged[1].success
              /\ call[p].logged[1].posted
              /\ call[p].logged[1].error_message = call[p].resp.exc

C18_Witness ==
    /\ ncalls = 2
    /\ call["c1"].stage = "returned"
    /\ call["c1"].resp = RespException
    /\ ~call["c1"].ret
    /\ \E r \in log : r.run = 2 /\ ~r.success /\ r.error_message = RespException.exc
    /\ \E r \in log : r.run = 1 /\ ~r.success /\ r.error_message = RespRejected.errmsg

\* C20 as claimed: a send whose POST is out always gets to its return, with its
\* log row written, also when the push service never answers the POST.
C20_StalledCallEnds ==
    (call["c1"].stage = "post") ~>
        (call["c1"].stage = "returned" /\ call["c1"].logged # <<>>)

\* the keys of a data map
Keys(d) == {kv[1] : kv \in d}

\* C25: in the payload of a send with a data map, every key of the map is in the
\* data block exactly once and no other key is, every value of the block is a
\* string, a value that is not None is there as its string form (a string as
\* itself, the integer 7 as "7") and a None value as the empty string.
C25_ExtraDataCoercion ==
    LET c == call["c1"]
    IN  (c.httpCalled /\ c.entry = "with_data") =>
            /\ Keys(c.payload.data) = Keys(c.data)
            /\ Cardinality(c.payload.data) = Cardinality(c.data)
            /\ \A kv \in c.payload.data : kv[2][1] = "str"
            /\ \A kv \in c.data :
                  /\ kv[2][1] = "none" => <<kv[1], PyStr(<<>>)>> \in c.payload.data
                  /\ kv[2][1] = "str" => <<kv[1], kv[2]>> \in c.payload.data
                  /\ (kv[2][1] = "int" /\ kv[2][2] = 7)
                        => <<kv[1], PyStr(<<"7">>)>> \in c.payload.data

C25_Witness ==
    /\ call["c1"].httpCalled
    /\ call["c1"].entry = "with_data"
    /\ call["c1"].data = {<<"link", PyStr(<<"/x">>)>>, <<"count", PyNone>>}
    /\ call["c1"].payload.data =
          {<<"link", PyStr(<<"/x">>)>>, <<"count", PyStr(<<>>)>>}

\* C26 as claimed: the data block of every composed payload has type equal to the
\* category passed to the send, the title, the body, and every key of the data map.
C26_DataBlockMergesCategory ==
    \A p \in Procs :
        call[p].httpCalled =>
            /\ <<"type", PyStr(<<call[p].ntype>>)>> \in call[p].payload.data
            /\ <<"title", PyStr(call[p].title)>> \in call[p].payload.data
            /\ <<"body", PyStr(call[p].message)>> \in call[p].payload.data
            /\ Keys(call[p].data) \subseteq Keys(call[p].payload.data)

\* C26, amended: the data block of send_fcm_notification is exactly type (the
\* category), title and body.  The data block of send_fcm_notification_with_data
\* has the keys of the data map and no other: type, title and body are in it only
\* when the caller put them into the map, and a type of the map is kept as it is.
\* The map the dispatcher passes has type "system_notification", the category under
\* notification_type, the notification's id, title and body.
C26_DataBlockPerEntryPoint ==
    \A p \in Procs :
        call[p].httpCalled =>
            IF call[p].entry = "plain"
            THEN call[p].payload.data =
                    { <<"type", PyStr(<<call[p].ntype>>)>>,
                      <<"title", PyStr(call[p].title)>>,
                      <<"body", PyStr(call[p].message)>> }
            ELSE /\ Keys(call[p].payload.data) = Keys(call[p].data)
                 /\ \A kv \in call[p].data :
                       kv[1] = "type" => kv \in call[p].payload.data
                 /\ p \in {"d1", "d2"} =>
                       /\ <<"type", PyStr(<<"system_notification">>)>> \in call[p].payload.data
                       /\ <<"notification_type", PyStr(<<call[p].ntype>>)>>
                             \in call[p].payload.data
                       /\ <<"notification_id", PyStr(<<IdStr(call[p].ref)>>)>>
                             \in call[p].payload.data
                       /\ <<"title", PyStr(call[p].title)>> \in call[p].payload.data
                       /\ <<"body", PyStr(call[p].message)>> \in call[p].payload.data

C26_Witness ==
    /\ call["c1"].httpCalled
    /\ call["c1"].entry = "with_data"
    /\ call["c1"].ntype = "test"
    /\ call["c1"].payload.data =
          {<<"type", PyStr(<<"chat">>)>>, <<"lead_id", PyStr(<<"7">>)>>}
    /\ call["d1"].httpCalled
    /\ call["d1"].ntype = "new_lead"
    /\ <<"type", PyStr(<<"system_notification">>)>> \in call["d1"].payload.data
    /\ call["s1"].httpCalled
    /\ call["s1"].entry = "plain"

====
